---- MODULE Spec2Model ----
(***************************************************************************)
(* A model of the enrollment / progress / certificate / order-fulfilment   *)
(* core of the emining_university Django application (src/courses).        *)
(*                                                                         *)
(* The database tables are sets of rows.  Rows that the database would     *)
(* tell apart by primary key carry an id drawn from the table's sequence,  *)
(* so that a duplicate row is representable and a uniqueness constraint    *)
(* is something the insert has to enforce.  timezone.now() is a logical    *)
(* clock that advances at every read.                                      *)
(*                                                                         *)
(* Sequential specifications run one whole request handler per step.       *)
(* The concurrent specification runs the queries of a handler one at a     *)
(* time, interleaved with those of the other requests in flight.           *)
(***************************************************************************)
EXTENDS Integers, Sequences, FiniteSets, TLC

\* ------------------------------------------------------------------ bounds
\* lessons a course is given by one admin_edit_course request
MaxLessons == 4
\* lesson rows ever inserted (the Lesson table's id sequence)
MaxLessonId == 7
\* timezone.now() reads in one behaviour
MaxTime == 5
\* requests in flight at the same time (concurrent specification)
NumProcs == 2
\* lessons a course has or is given while requests run concurrently
ConcLessons == 1
\* lesson rows inserted while requests run concurrently
ConcNewLessons == 2
\* lessons of the course whose percentages are computed (percentage specification)
MaxCourseLessons == 50
\* orders ever created
MaxOrders == 2
\* the clock value up to which payment confirmations are handled
MaxPayTime == 2

\* ------------------------------------------------------------- the domain
Students == {"s1"}
Courses == {"c1", "c2"}
Procs == 1..NumProcs

\* NULL of a nullable DateTimeField
None == 0

VARIABLES
    lessons,          \* Lesson rows (joined with Section): [id, course]
    lessonSeq,        \* the Lesson table's id sequence
    lessonProgress,   \* LessonProgress rows: [student, lesson, completed]
    enrollments,      \* Enrollment rows
    enrollSeq,        \* the Enrollment table's id sequence
    certificates,     \* Certificate rows
    certSeq,          \* certificate ids generated so far
    clock,            \* the last value timezone.now() returned
    carts,            \* Cart rows with their CartItems, per user
    orders,           \* Order rows with their OrderItems, by order_id
    gateway,          \* the payment gateway's transaction per reference
    emails,           \* enrollment-confirmation mails dispatched, per order
    handled,          \* success confirmations handled, per order
    response,         \* the last request's outcome: "ok" when the handler returned a
                      \* response, "error" when an exception left it
    req               \* the requests in flight (concurrent handlers)

dbLearn == <<lessons, lessonSeq, lessonProgress, enrollments, enrollSeq, certificates, certSeq, clock>>
dbPay == <<carts, orders, gateway, emails, handled>>
vars == <<lessons, lessonSeq, lessonProgress, enrollments, enrollSeq, certificates, certSeq, clock,
          carts, orders, gateway, emails, handled, response, req>>

\* ------------------------------------------------------------ Enrollment
\* Enrollment(student=s, course=c) with the field defaults
NewEnrollment(id, s, c) ==
    [id |-> id, student |-> s, course |-> c, completed |-> FALSE,
     completed_at |-> None, progress_percentage |-> 0]

EnrollmentsOf(enr, s, c) == {e \in enr : e.student = s /\ e.course = c}

\* Model.save() of a loaded instance: UPDATE of every field WHERE id = self.id
Save(enr, self) == {e \in enr : e.id # self.id} \cup {self}

\* The database state a handler works on, with whether it raised.
DB == [les |-> lessons, lp |-> lessonProgress, enr |-> enrollments,
       cert |-> certificates, cseq |-> certSeq, clk |-> clock, raised |-> FALSE]

\* Lesson.objects.filter(section__course=self.course).count()
total_lessons(db, c) == Cardinality({l \in db.les : l.course = c})

\* LessonProgress.objects.filter(student=, lesson__section__course=, completed=True).count()
completed_lessons(db, s, c) ==
    Cardinality({x \in db.lp :
                    /\ x.student = s
                    /\ x.completed
                    /\ \E l \in db.les : l.id = x.lesson /\ l.course = c})

\* The whole percentages p whose double quotient p/100, multiplied by 100 in
\* doubles, is the double just below p: 0.29 * 100 = 28.999999999999996,
\* 0.57 * 100 = 56.99999999999999, 0.58 * 100 = 57.99999999999999.
RoundedBelow == {29, 57, 58}

\* int((completed_lessons / total_lessons) * 100): a double division, a double
\* product, then truncation.  The double quotient depends on the ratio only.  When
\* completed*100/total is not whole the rounding errors (2^-52 relative) do not
\* reach the next integer and truncation gives the floor; when it is a whole p
\* the product is p, or the double just below p for the p of RoundedBelow.
Percentage(done, total) ==
    LET q == (done * 100) \div total
    IN  IF (done * 100) % total = 0 /\ q \in RoundedBelow THEN q - 1 ELSE q

\* ----------------------------------------------------------- Certificate
CertificatesOf(cert, s, c) == {x \in cert : x.student = s /\ x.course = c}

\* Certificate.objects.create(...) on a table without the unique_together constraint
CertificateCreateUnconstrained(db, s, c) ==
    [db EXCEPT !.cert = @ \cup {[student |-> s, course |-> c,
                                 certificate_id |-> db.cseq + 1,
                                 issued_at |-> db.clk + 1,
                                      pdf_file |-> ""]},
               !.cseq = @ + 1,
               !.clk = @ + 1]

\* Certificate.objects.create(...): INSERT under unique_together (student, course);
\* a violation raises IntegrityError and inserts nothing.  certificate_id is a
\* fresh uuid token, issued_at is auto_now_add, pdf_file is left empty.
CertificateCreate(db, s, c) ==
    IF CertificatesOf(db.cert, s, c) # {}
    THEN [db EXCEPT !.raised = TRUE]
    ELSE [db EXCEPT !.cert = @ \cup {[student |-> s, course |-> c,
                                      certificate_id |-> db.cseq + 1,
                                      issued_at |-> db.clk + 1,
                                      pdf_file |-> ""]},
                    !.cseq = @ + 1,
                    !.clk = @ + 1]

\* issue_certificate without the exists() pre-check
MayIssueUnchecked(db, self) ==
    self.completed

\* the condition of issue_certificate: self.completed and not ...exists()
MayIssue(db, self) ==
    self.completed /\ CertificatesOf(db.cert, self.student, self.course) = {}

issue_certificate(db, self) ==
    IF MayIssue(db, self)
    THEN CertificateCreate(db, self.student, self.course)
    ELSE db

\* calculate_progress setting completed without completed_at
RecalculatedWithoutTimestamp(self, pct, now) ==
    IF pct = 100 /\ ~self.completed
    THEN [self EXCEPT !.progress_percentage = pct, !.completed = TRUE]
    ELSE [self EXCEPT !.progress_percentage = pct]

\* calculate_progress setting the completion fields whenever it computes 100
RecalculatedEveryTime(self, pct, now) ==
    IF pct = 100
    THEN [self EXCEPT !.progress_percentage = pct, !.completed = TRUE,
                      !.completed_at = now]
    ELSE [self EXCEPT !.progress_percentage = pct]

\* The instance as calculate_progress leaves it before save(): the percentage,
\* and the completion fields when it reaches 100 for the first time.
Recalculated(self, pct, now) ==
    IF pct = 100 /\ ~self.completed
    THEN [self EXCEPT !.progress_percentage = pct, !.completed = TRUE,
                      !.completed_at = now]
    ELSE [self EXCEPT !.progress_percentage = pct]

\* Enrollment.calculate_progress on the loaded instance self, run to its end.
calculate_progress(db, self) ==
    LET total == total_lessons(db, self.course) IN
    IF total = 0
    THEN db
    ELSE LET pct == Percentage(completed_lessons(db, self.student, self.course), total)
             first == pct = 100 /\ ~self.completed
             now == db.clk + 1
             self2 == Recalculated(self, pct, now)
             db2 == [db EXCEPT !.enr = Save(@, self2),
                               !.clk = IF first THEN now ELSE @]
         IN  IF first THEN issue_certificate(db2, self2) ELSE db2

\* the next instance of a queryset ordered by -enrolled_at
NextLoaded(loaded) == CHOOSE e \in loaded : \A f \in loaded : e.id >= f.id

RECURSIVE calculate_all(_, _)
\* for enrollment in enrollments: enrollment.calculate_progress(), the instances
\* having been loaded before the loop
calculate_all(db, loaded) ==
    IF loaded = {} \/ db.raised
    THEN db
    ELSE LET self == NextLoaded(loaded)
         IN  calculate_all(calculate_progress(db, self), loaded \ {self})

\* write a handler's database state back
Commit(db) ==
    /\ db.clk <= MaxTime
    /\ lessons' = db.les
    /\ lessonProgress' = db.lp
    /\ enrollments' = db.enr
    /\ certificates' = db.cert
    /\ certSeq' = db.cseq
    /\ clock' = db.clk
    /\ response' = IF db.raised THEN "error" ELSE "ok"

\* Enrollment.objects.filter(student=u, course=c).first()
FirstEnrollment(u, c) ==
    CHOOSE e \in EnrollmentsOf(enrollments, u, c) :
        \A f \in EnrollmentsOf(enrollments, u, c) : e.id <= f.id

\* a handler that answers without touching the learning tables
Answer(r) ==
    /\ response' = r
    /\ UNCHANGED <<lessons, lessonProgress, enrollments, certificates, certSeq, clock>>

\* --------------------------------------------- learning handlers, whole
dashboard(u) ==
    /\ Commit(calculate_all(DB, {e \in enrollments : e.student = u}))
    /\ UNCHANGED <<lessonSeq, enrollSeq, dbPay, req>>

course_content(u, c) ==
    /\ IF EnrollmentsOf(enrollments, u, c) = {}
       THEN Answer("ok")
       ELSE Commit(calculate_progress(DB, FirstEnrollment(u, c)))
    /\ UNCHANGED <<lessonSeq, enrollSeq, dbPay, req>>

\* LessonProgress.objects.get_or_create(student, lesson), completed = True, save()
MarkCompleted(lp, s, l) ==
    {x \in lp : ~(x.student = s /\ x.lesson = l)}
        \cup {[student |-> s, lesson |-> l, completed |-> TRUE]}

mark_lesson_complete(u, lid) ==
    /\ \E l \in lessons :
        /\ l.id = lid
        /\ IF EnrollmentsOf(enrollments, u, l.course) = {}
           THEN Answer("ok")
           ELSE Commit(calculate_progress(
                    [DB EXCEPT !.lp = MarkCompleted(@, u, lid)],
                    FirstEnrollment(u, l.course)))
    /\ UNCHANGED <<lessonSeq, enrollSeq, dbPay, req>>

\* Section.objects.filter(course=course).delete() cascades to the lessons and to
\* their LessonProgress rows; then n lessons are created from sections_data.
admin_edit_course(c, n) ==
    /\ lessonSeq + n <= MaxLessonId
    /\ LET gone == {l.id : l \in {x \in lessons : x.course = c}} IN
       /\ lessons' = {l \in lessons : l.course # c}
                        \cup {[id |-> lessonSeq + i, course |-> c] : i \in 1..n}
       /\ lessonProgress' = {x \in lessonProgress : x.lesson \notin gone}
    /\ lessonSeq' = lessonSeq + n
    /\ response' = "ok"
    /\ UNCHANGED <<enrollments, enrollSeq, certificates, certSeq, clock, dbPay, req>>

\* ------------------------------------------------------- cart and orders
\* Course.price
Price(c) == IF c = "c1" THEN 100 ELSE 200

\* Order.STATUS_CHOICES
STATUS_CHOICES == {"pending", "processing", "completed", "failed", "refunded"}

\* the status values the admin's form is submitted with: two of the choices
\* and a value that is not a choice
StatusInputs == {"pending", "completed", "bogus"}

\* the channels a charge is paid through
Channels == {"card"}

NoCart == [exists |-> FALSE, items |-> {}]

\* the gateway's own id of the transaction it holds for a reference
TxnId(ref) == "txn-" \o ToString(ref)

\* no transaction for a reference
NoTxn == [status |-> "none", channel |-> ""]

OrderIds == 1..Len(orders)

RECURSIVE SumPrices(_)
\* Cart.get_total(): sum(item.course.price for item in self.items.all())
SumPrices(cs) ==
    IF cs = {} THEN 0
    ELSE LET c == CHOOSE x \in cs : TRUE IN Price(c) + SumPrices(cs \ {c})

\* Enrollment.objects.create(student=s, course=c) on a table without the constraint
CreateEnrollment(e, s, c) ==
    [enr |-> e.enr \cup {NewEnrollment(e.seq + 1, s, c)}, seq |-> e.seq + 1]

\* Enrollment.objects.get_or_create(student=s, course=c): the row when there is
\* one, else an INSERT under unique_together (student, course)
GetOrCreateEnrollment(e, s, c) ==
    IF EnrollmentsOf(e.enr, s, c) # {}
    THEN e
    ELSE [enr |-> e.enr \cup {NewEnrollment(e.seq + 1, s, c)}, seq |-> e.seq + 1]

\* a loop over the courses of the catalogue instead of the order's items
EnrollCatalogue(e, s, items) ==
    GetOrCreateEnrollment(GetOrCreateEnrollment(e, s, "c1"), s, "c2")

\* a loop that leaves after its first order item
EnrollFirst(e, s, items) ==
    IF items = {} THEN e
    ELSE LET it == CHOOSE x \in items : \A y \in items : Price(x.course) <= Price(y.course)
         IN  GetOrCreateEnrollment(e, s, it.course)

RECURSIVE EnrollAll(_, _, _)
\* for order_item in order.items.all(): Enrollment.objects.get_or_create(...)
EnrollAll(e, s, items) ==
    IF items = {} THEN e
    ELSE LET it == CHOOSE x \in items : \A y \in items : Price(x.course) <= Price(y.course)
         IN  EnrollAll(GetOrCreateEnrollment(e, s, it.course), s, items \ {it})

\* a fulfilment that leaves the user's cart as it is
KeepCart(c, u) == c

\* Cart.objects.filter(user=u).delete(): the Cart row and, by cascade, its CartItems
DeleteCart(c, u) == [c EXCEPT ![u] = NoCart]

\* send_enrollment_email raising what goes wrong inside it
send_enrollment_email_raising(n, mail) ==
    [sent |-> IF mail = "sent" THEN n + 1 ELSE n, raised |-> mail = "error"]

\* send_enrollment_email with n mails dispatched for the order so far.  mail is
\* what happens inside: "sent", "refused" (send_mail fails, fail_silently=True)
\* or "error" (rendering or send_mail raises, caught by the except clause).
send_enrollment_email(n, mail) ==
    [sent |-> IF mail = "sent" THEN n + 1 ELSE n, raised |-> FALSE]

\* what can happen inside send_enrollment_email
MailOutcomes == {"sent", "refused", "error"}

\* The success branch of paystack_webhook and of payment_verify: the order is
\* saved as completed with the confirmation's id and channel, its items are
\* enrolled, the user's cart is deleted and the confirmation mail is sent.
\* An exception that leaves the branch is caught by payment_verify's except
\* clause (catches) and leaves paystack_webhook.
Fulfil(o, id, channel, catches) ==
    /\ clock < MaxPayTime
    /\ clock' = clock + 1
    /\ orders' = [orders EXCEPT ![o] = [@ EXCEPT !.status = "completed",
                                                 !.payment_reference = id,
                                                 !.payment_method = channel,
                                                 !.completed_at = clock + 1]]
    /\ LET e == EnrollAll([enr |-> enrollments, seq |-> enrollSeq],
                          orders[o].user, orders[o].items)
       IN  enrollments' = e.enr /\ enrollSeq' = e.seq
    /\ carts' = DeleteCart(carts, orders[o].user)
    /\ \E mail \in MailOutcomes :
          LET m == send_enrollment_email(emails[o], mail) IN
          /\ emails' = [emails EXCEPT ![o] = m.sent]
          /\ response' = IF m.raised /\ ~catches THEN "error" ELSE "ok"
    /\ handled' = [handled EXCEPT ![o] = @ + 1]

NoPayChange == UNCHANGED <<carts, orders, gateway, emails, handled, enrollments, enrollSeq, clock>>

\* cart_view: Cart.objects.get_or_create(user=request.user), then the page
cart_view(u) ==
    /\ carts' = [carts EXCEPT ![u] = [exists |-> TRUE, items |-> @.items]]
    /\ response' = "ok"
    /\ UNCHANGED <<orders, gateway, emails, handled, dbLearn, req>>

add_to_cart(u, c) ==
    /\ IF EnrollmentsOf(enrollments, u, c) # {}
       THEN /\ response' = "ok"
            /\ UNCHANGED carts
       ELSE /\ carts' = [carts EXCEPT ![u] = [exists |-> TRUE, items |-> @.items \cup {c}]]
            /\ response' = "ok"
    /\ UNCHANGED <<orders, gateway, emails, handled, dbLearn, req>>

\* init is what the gateway's initialize call does: "ok" (result['status'] true),
\* "declined" (false) or "exception" (the call or its parsing raised)
initiate_payment(u, init) ==
    /\ IF ~carts[u].exists
       THEN response' = "ok" /\ UNCHANGED <<orders, gateway>>
       ELSE IF carts[u].items = {}
       THEN response' = "ok" /\ UNCHANGED <<orders, gateway>>
       ELSE /\ Len(orders) < MaxOrders
            /\ LET o == Len(orders) + 1 IN
               /\ orders' = Append(orders,
                    [user |-> u,
                     total_amount |-> SumPrices(carts[u].items),
                     items |-> {[course |-> c, price |-> Price(c)] : c \in carts[u].items},
                     status |-> IF init = "ok" THEN "pending" ELSE "failed",
                     payment_reference |-> "",
                     payment_method |-> "",
                     completed_at |-> None])
               /\ gateway' = IF init = "ok"
                             THEN [gateway EXCEPT ![o] = [status |-> "initialized", channel |-> ""]]
                             ELSE gateway
               /\ response' = "ok"
    /\ UNCHANGED <<carts, emails, handled, dbLearn, req>>

\* The customer at the gateway's page: the charge succeeds through a channel,
\* or is abandoned.
gateway_charge(ref, channel) ==
    /\ gateway[ref].status = "initialized"
    /\ gateway' = [gateway EXCEPT ![ref] =
                     IF channel \in Channels
                     THEN [status |-> "success", channel |-> channel]
                     ELSE [status |-> "abandoned", channel |-> ""]]
    /\ UNCHANGED <<carts, orders, emails, handled, dbLearn, response, req>>

\* A POST to the webhook URL.  The handler reads the payload as it is: event,
\* data.reference, data.id and data.channel are whatever the sender wrote.
paystack_webhook(event, ref, id, channel) ==
    /\ IF event = "charge.success" /\ ref \in OrderIds
       THEN /\ Fulfil(ref, id, channel, FALSE)
            /\ UNCHANGED gateway
       ELSE /\ NoPayChange
            /\ response' = "ok"
    /\ UNCHANGED <<lessons, lessonSeq, lessonProgress, certificates, certSeq, req>>

\* GET /payment/verify/?reference=ref by user u (ref 0: no reference given).
\* net is "answer" when the gateway's verify call returns and "exception" when
\* it raises; the gateway answers success exactly for a charge that succeeded.
payment_verify(u, ref, net) ==
    /\ IF ref = 0
       THEN response' = "ok" /\ NoPayChange
       ELSE IF ~(ref \in OrderIds /\ orders[ref].user = u)
       THEN response' = "ok" /\ NoPayChange
       ELSE IF net = "exception"
       THEN response' = "ok" /\ NoPayChange
       ELSE IF gateway[ref].status = "success"
       THEN /\ Fulfil(ref, TxnId(ref), gateway[ref].channel, TRUE)
            /\ UNCHANGED gateway
       ELSE /\ orders' = [orders EXCEPT ![ref] = [@ EXCEPT !.status = "failed"]]
            /\ response' = "ok"
            /\ UNCHANGED <<carts, gateway, emails, handled, enrollments, enrollSeq, clock>>
    /\ UNCHANGED <<lessons, lessonSeq, lessonProgress, certificates, certSeq, req>>

\* POST by a superuser; new_status is the form's status value
admin_update_order_status(o, new_status) ==
    /\ o \in OrderIds
    /\ orders' = IF new_status \in STATUS_CHOICES
                 THEN [orders EXCEPT ![o] = [@ EXCEPT !.status = new_status]]
                 ELSE orders
    /\ response' = "ok"
    /\ UNCHANGED <<carts, gateway, emails, handled, dbLearn, req>>

\* ------------------------------------- learning handlers, query by query
\* A request in flight: where it is, the Enrollment instance it loaded (self),
\* the instances its loop has still to visit, the lesson it was given, the
\* counts it has read, and whether the stored row was already completed when
\* it called calculate_progress.
NoRequest == [pc |-> "idle", self |-> NewEnrollment(0, "", ""), loaded |-> {},
              lesson |-> 0, total |-> 0, done |-> 0, late |-> FALSE]

StoredRow(self) == CHOOSE e \in enrollments : e.id = self.id

\* the request's handler returns, or an exception leaves it
Finish(p, r) ==
    /\ req' = [req EXCEPT ![p] = NoRequest]
    /\ response' = r

\* calculate_progress returns to the view: dashboard goes on with its loop,
\* the other views render
Return(p) ==
    IF req[p].loaded = {}
    THEN Finish(p, "ok")
    ELSE /\ req' = [req EXCEPT ![p] = [NoRequest EXCEPT
                        !.pc = "calc",
                        !.self = NextLoaded(req[p].loaded),
                        !.loaded = req[p].loaded \ {NextLoaded(req[p].loaded)}]]
         /\ UNCHANGED response

\* dashboard: the queryset is evaluated once, when the loop starts
start_dashboard(p, u) ==
    /\ req[p].pc = "idle"
    /\ LET mine == {e \in enrollments : e.student = u} IN
       IF mine = {}
       THEN Finish(p, "ok")
       ELSE /\ req' = [req EXCEPT ![p] = [NoRequest EXCEPT
                          !.pc = "calc",
                          !.self = NextLoaded(mine),
                          !.loaded = mine \ {NextLoaded(mine)}]]
            /\ UNCHANGED response
    /\ UNCHANGED <<dbLearn, dbPay>>

\* course_content: Enrollment.objects.filter(...).first()
start_course_content(p, u, c) ==
    /\ req[p].pc = "idle"
    /\ IF EnrollmentsOf(enrollments, u, c) = {}
       THEN Finish(p, "ok")
       ELSE /\ req' = [req EXCEPT ![p] = [NoRequest EXCEPT
                          !.pc = "calc", !.self = FirstEnrollment(u, c)]]
            /\ UNCHANGED response
    /\ UNCHANGED <<dbLearn, dbPay>>

\* mark_lesson_complete: the lesson and the enrollment are fetched
start_mark_lesson_complete(p, u, lid) ==
    /\ req[p].pc = "idle"
    /\ \E l \in lessons :
        /\ l.id = lid
        /\ IF EnrollmentsOf(enrollments, u, l.course) = {}
           THEN Finish(p, "ok")
           ELSE /\ req' = [req EXCEPT ![p] = [NoRequest EXCEPT
                              !.pc = "mark", !.lesson = lid,
                              !.self = FirstEnrollment(u, l.course)]]
                /\ UNCHANGED response
    /\ UNCHANGED <<dbLearn, dbPay>>

\* mark_lesson_complete: get_or_create of the progress row and its save(); the
\* lesson's foreign key fails when the lesson was deleted since it was fetched
step_mark(p) ==
    /\ req[p].pc = "mark"
    /\ IF \E l \in lessons : l.id = req[p].lesson
       THEN /\ lessonProgress' = MarkCompleted(lessonProgress, req[p].self.student, req[p].lesson)
            /\ req' = [req EXCEPT ![p].pc = "calc"]
            /\ UNCHANGED response
       ELSE /\ Finish(p, "error")
            /\ UNCHANGED lessonProgress
    /\ UNCHANGED <<lessons, lessonSeq, enrollments, enrollSeq, certificates, certSeq, clock, dbPay>>

\* calculate_progress is called: total_lessons is counted
step_total(p) ==
    /\ req[p].pc = "calc"
    /\ LET total == total_lessons(DB, req[p].self.course) IN
       IF total = 0
       THEN Return(p)
       ELSE /\ req' = [req EXCEPT ![p].pc = "count", ![p].total = total,
                                  ![p].late = StoredRow(req[p].self).completed]
            /\ UNCHANGED response
    /\ UNCHANGED <<dbLearn, dbPay>>

\* calculate_progress: completed_lessons is counted
step_count(p) ==
    /\ req[p].pc = "count"
    /\ req' = [req EXCEPT ![p].pc = "save",
                          ![p].done = completed_lessons(DB, req[p].self.student, req[p].self.course)]
    /\ UNCHANGED <<dbLearn, dbPay, response>>

\* calculate_progress: the percentage is set on the instance and the instance
\* is saved; on the way to 100 for the first time the completion fields are
\* set before the save and issue_certificate follows
step_save(p) ==
    /\ req[p].pc = "save"
    /\ LET self == req[p].self
           pct == Percentage(req[p].done, req[p].total)
           first == pct = 100 /\ ~self.completed
           self2 == Recalculated(self, pct, clock + 1)
       IN  /\ first => clock < MaxTime
           /\ clock' = IF first THEN clock + 1 ELSE clock
           /\ enrollments' = Save(enrollments, self2)
           /\ IF first
              THEN /\ req' = [req EXCEPT ![p].pc = "issue", ![p].self = self2]
                   /\ UNCHANGED response
              ELSE Return(p)
    /\ UNCHANGED <<lessons, lessonSeq, lessonProgress, enrollSeq, certificates, certSeq, dbPay>>

\* issue_certificate: self.completed and not Certificate...exists()
step_issue(p) ==
    /\ req[p].pc = "issue"
    /\ IF MayIssue(DB, req[p].self)
       THEN /\ req' = [req EXCEPT ![p].pc = "create"]
            /\ UNCHANGED response
       ELSE Return(p)
    /\ UNCHANGED <<dbLearn, dbPay>>

\* issue_certificate: Certificate.objects.create(...)
step_create(p) ==
    /\ req[p].pc = "create"
    /\ LET db == CertificateCreate(DB, req[p].self.student, req[p].self.course) IN
       /\ db.clk <= MaxTime
       /\ certificates' = db.cert
       /\ certSeq' = db.cseq
       /\ clock' = db.clk
       /\ IF db.raised THEN Finish(p, "error") ELSE Return(p)
    /\ UNCHANGED <<lessons, lessonSeq, lessonProgress, enrollments, enrollSeq, dbPay>>

\* ------------------------------------------------------ specifications
\* the database after construction: courses with their lessons, nothing else
InitPay ==
    /\ lessons = {[id |-> 1, course |-> "c1"], [id |-> 2, course |-> "c2"]}
    /\ lessonSeq = 2
    /\ lessonProgress = {}
    /\ enrollments = {}
    /\ enrollSeq = 0
    /\ certificates = {}
    /\ certSeq = 0
    /\ clock = 0
    /\ carts = [u \in Students |-> NoCart]
    /\ orders = <<>>
    /\ gateway = [r \in 1..MaxOrders |-> NoTxn]
    /\ emails = [r \in 1..MaxOrders |-> 0]
    /\ handled = [r \in 1..MaxOrders |-> 0]
    /\ response = "none"
    /\ req = [p \in Procs |-> NoRequest]

\* The database once student s1 has bought the courses of the set bought in one
\* order, paid by card and confirmed through payment_verify: a state SpecPay
\* reaches.  In Enrolled the courses have n1 and n2 lessons, the lesson ids up
\* to first being those of lessons deleted since.
Purchased(bought) ==
    /\ lessonProgress = {}
    /\ LET e == EnrollAll([enr |-> {}, seq |-> 0], "s1",
                          {[course |-> c, price |-> Price(c)] : c \in bought})
       IN  enrollments = e.enr /\ enrollSeq = e.seq
    /\ certificates = {}
    /\ certSeq = 0
    /\ clock = 1
    /\ carts = [u \in Students |-> NoCart]
    /\ orders = <<[user |-> "s1", total_amount |-> SumPrices(bought),
                   items |-> {[course |-> c, price |-> Price(c)] : c \in bought},
                   status |-> "completed", payment_reference |-> TxnId(1),
                   payment_method |-> "card", completed_at |-> 1]>>
    /\ gateway = [r \in 1..MaxOrders |->
                    IF r = 1 THEN [status |-> "success", channel |-> "card"] ELSE NoTxn]
    /\ emails = [r \in 1..MaxOrders |-> IF r = 1 THEN 1 ELSE 0]
    /\ handled = [r \in 1..MaxOrders |-> IF r = 1 THEN 1 ELSE 0]
    /\ response = "ok"
    /\ req = [p \in Procs |-> NoRequest]

Enrolled(bought, first, n1, n2) ==
    /\ lessons = {[id |-> first + i, course |-> "c1"] : i \in 1..n1}
                    \cup {[id |-> first + n1 + i, course |-> "c2"] : i \in 1..n2}
    /\ lessonSeq = first + n1 + n2
    /\ Purchased(bought)

InitLearn ==
    \E n1 \in 0..MaxLessons, n2 \in 0..MaxLessons :
        n1 + n2 <= MaxLessonId /\ Enrolled(Courses, 0, n1, n2)

InitConc ==
    Enrolled({"c1"}, MaxLessonId - ConcNewLessons - 2 * ConcLessons, ConcLessons, ConcLessons)

NextPay ==
    \/ \E u \in Students : cart_view(u)
    \/ \E u \in Students, c \in Courses : add_to_cart(u, c)
    \/ \E u \in Students, init \in {"ok", "declined", "exception"} : initiate_payment(u, init)
    \/ \E ref \in 1..MaxOrders, ch \in Channels \cup {"none"} : gateway_charge(ref, ch)
    \/ \E ev \in {"charge.success", "charge.failed"}, ref \in 1..MaxOrders, ch \in Channels :
          \E id \in {TxnId(ref), "forged"} : paystack_webhook(ev, ref, id, ch)
    \/ \E u \in Students, ref \in 0..MaxOrders, net \in {"answer", "exception"} :
            payment_verify(u, ref, net)
    \/ \E o \in 1..MaxOrders, st \in StatusInputs : admin_update_order_status(o, st)

SpecPay == InitPay /\ [][NextPay]_vars

NextLearn ==
    \/ \E u \in Students : dashboard(u)
    \/ \E u \in Students, c \in Courses : course_content(u, c)
    \/ \E u \in Students, lid \in 1..MaxLessonId : mark_lesson_complete(u, lid)
    \/ \E c \in Courses, n \in 0..MaxLessons : admin_edit_course(c, n)

SpecLearn == InitLearn /\ [][NextLearn]_vars

NextConc ==
    \/ \E p \in Procs, u \in Students : start_dashboard(p, u)
    \/ \E p \in Procs, u \in Students, c \in Courses : start_course_content(p, u, c)
    \/ \E p \in Procs, u \in Students, lid \in 1..MaxLessonId : start_mark_lesson_complete(p, u, lid)
    \/ \E p \in Procs : step_mark(p)
    \/ \E p \in Procs : step_total(p)
    \/ \E p \in Procs : step_count(p)
    \/ \E p \in Procs : step_save(p)
    \/ \E p \in Procs : step_issue(p)
    \/ \E p \in Procs : step_create(p)
    \/ \E c \in Courses, n \in 0..ConcLessons : admin_edit_course(c, n)

SpecConc == InitConc /\ [][NextConc]_vars

\* The percentage specification: the student bought course c1, which has up to
\* MaxCourseLessons lessons, and works through them in their order; the dashboard
\* and the course page are opened in between.
InitPct ==
    \E n \in 1..MaxCourseLessons : Enrolled({"c1"}, 0, n, 0)

\* the first lesson of the course the student has not completed
IsNextLesson(u, lid) ==
    /\ \E l \in lessons : l.id = lid
    /\ \A i \in 1..MaxCourseLessons :
          (\E x \in lessonProgress : x.student = u /\ x.lesson = i) <=> i < lid

NextPct ==
    \/ \E u \in Students : dashboard(u)
    \/ \E u \in Students, c \in Courses : course_content(u, c)
    \/ \E u \in Students, lid \in 1..MaxCourseLessons :
          IsNextLesson(u, lid) /\ mark_lesson_complete(u, lid)

SpecPct == InitPct /\ [][NextPct]_vars

\* ------------------------------------- fulfilment handlers, query by query
\* the two handlers that fulfil an order
Handlers == {"paystack_webhook", "payment_verify"}

\* A fulfilment request in flight: where it is, the order_id it was given, the
\* Order instance it loaded, the id and channel of the confirmation, and the
\* order items its loop has still to visit.
NoFulfilment == [pc |-> "idle", order |-> 0, self |-> <<>>, id |-> "", channel |-> "",
                 left |-> {}]

\* the order item a loop over the items visits next
NextItem(items) == CHOOSE x \in items : \A y \in items : Price(x.course) <= Price(y.course)

\* paystack_webhook on the gateway's charge.success event for reference ref:
\* Order.objects.get(order_id=reference)
start_paystack_webhook(ref) ==
    /\ req["paystack_webhook"].pc = "idle"
    /\ ref \in OrderIds
    /\ gateway[ref].status = "success"
    /\ req' = [req EXCEPT !["paystack_webhook"] =
                  [NoFulfilment EXCEPT !.pc = "save", !.order = ref, !.self = orders[ref],
                                       !.id = TxnId(ref), !.channel = gateway[ref].channel]]
    /\ UNCHANGED <<dbLearn, dbPay, response>>

\* payment_verify by user u for reference ref: Order.objects.get(order_id=,
\* user=) and the gateway's verify call answering success
start_payment_verify(u, ref) ==
    /\ req["payment_verify"].pc = "idle"
    /\ ref \in OrderIds
    /\ orders[ref].user = u
    /\ gateway[ref].status = "success"
    /\ req' = [req EXCEPT !["payment_verify"] =
                  [NoFulfilment EXCEPT !.pc = "save", !.order = ref, !.self = orders[ref],
                                       !.id = TxnId(ref), !.channel = gateway[ref].channel]]
    /\ UNCHANGED <<dbLearn, dbPay, response>>

\* the completion fields are set on the loaded instance and order.save() writes it
fulfil_save(h) ==
    /\ req[h].pc = "save"
    /\ clock < MaxPayTime
    /\ clock' = clock + 1
    /\ orders' = [orders EXCEPT ![req[h].order] =
                     [req[h].self EXCEPT !.status = "completed",
                                         !.payment_reference = req[h].id,
                                         !.payment_method = req[h].channel,
                                         !.completed_at = clock + 1]]
    /\ req' = [req EXCEPT ![h].pc = IF req[h].self.items = {} THEN "cart" ELSE "get",
                          ![h].left = req[h].self.items]
    /\ UNCHANGED <<lessons, lessonSeq, lessonProgress, enrollments, enrollSeq, certificates,
                   certSeq, carts, gateway, emails, handled, response>>

\* get_or_create: the SELECT of the item's enrollment
fulfil_get(h) ==
    /\ req[h].pc = "get"
    /\ LET it == NextItem(req[h].left) IN
       IF EnrollmentsOf(enrollments, req[h].self.user, it.course) # {}
       THEN req' = [req EXCEPT ![h].left = @ \ {it},
                               ![h].pc = IF req[h].left = {it} THEN "cart" ELSE "get"]
       ELSE req' = [req EXCEPT ![h].pc = "create"]
    /\ UNCHANGED <<dbLearn, dbPay, response>>

\* get_or_create: the INSERT after a SELECT that found nothing; when the row has
\* been inserted since, the IntegrityError is caught and the row is fetched
fulfil_create(h) ==
    /\ req[h].pc = "create"
    /\ LET it == NextItem(req[h].left)
           e == GetOrCreateEnrollment([enr |-> enrollments, seq |-> enrollSeq],
                                      req[h].self.user, it.course)
       IN  /\ enrollments' = e.enr
           /\ enrollSeq' = e.seq
           /\ req' = [req EXCEPT ![h].left = @ \ {it},
                                 ![h].pc = IF req[h].left = {it} THEN "cart" ELSE "get"]
    /\ UNCHANGED <<lessons, lessonSeq, lessonProgress, certificates, certSeq, clock,
                   dbPay, response>>

\* Cart.objects.filter(user=order.user).delete()
fulfil_cart(h) ==
    /\ req[h].pc = "cart"
    /\ carts' = DeleteCart(carts, req[h].self.user)
    /\ req' = [req EXCEPT ![h].pc = "mail"]
    /\ UNCHANGED <<dbLearn, orders, gateway, emails, handled, response>>

\* send_enrollment_email, then the handler's response
fulfil_mail(h) ==
    /\ req[h].pc = "mail"
    /\ \E mail \in MailOutcomes :
          LET m == send_enrollment_email(emails[req[h].order], mail) IN
          /\ emails' = [emails EXCEPT ![req[h].order] = m.sent]
          /\ response' = IF m.raised /\ h # "payment_verify" THEN "error" ELSE "ok"
    /\ handled' = [handled EXCEPT ![req[h].order] = @ + 1]
    /\ req' = [req EXCEPT ![h] = NoFulfilment]
    /\ UNCHANGED <<dbLearn, carts, orders, gateway>>

\* The fulfilment specification: carts are filled, orders are initiated and paid
\* at the gateway, and the gateway's webhook delivery and the customer's return
\* to payment_verify are handled at the same time.
InitRace ==
    /\ lessons = {[id |-> 1, course |-> "c1"], [id |-> 2, course |-> "c2"]}
    /\ lessonSeq = 2
    /\ lessonProgress = {}
    /\ enrollments = {}
    /\ enrollSeq = 0
    /\ certificates = {}
    /\ certSeq = 0
    /\ clock = 0
    /\ carts = [u \in Students |-> NoCart]
    /\ orders = <<>>
    /\ gateway = [r \in 1..MaxOrders |-> NoTxn]
    /\ emails = [r \in 1..MaxOrders |-> 0]
    /\ handled = [r \in 1..MaxOrders |-> 0]
    /\ response = "none"
    /\ req = [h \in Handlers |-> NoFulfilment]

NextRace ==
    \/ \E u \in Students, c \in Courses : add_to_cart(u, c)
    \/ \E u \in Students : initiate_payment(u, "ok")
    \/ \E ref \in 1..MaxOrders, ch \in Channels : gateway_charge(ref, ch)
    \/ \E ref \in 1..MaxOrders : start_paystack_webhook(ref)
    \/ \E u \in Students, ref \in 1..MaxOrders : start_payment_verify(u, ref)
    \/ \E h \in Handlers : fulfil_save(h)
    \/ \E h \in Handlers : fulfil_get(h)
    \/ \E h \in Handlers : fulfil_create(h)
    \/ \E h \in Handlers : fulfil_cart(h)
    \/ \E h \in Handlers : fulfil_mail(h)

SpecRace == InitRace /\ [][NextRace]_vars

\* ------------------------------------------- lesson tracking, timestamps kept
\* In the tracking specification a Lesson row carries is_preview and a
\* LessonProgress row its timestamps: [student, lesson, completed, completed_at,
\* last_viewed].

\* the LessonProgress rows of (student, lesson)
ProgressOf(lp, s, l) == {x \in lp : x.student = s /\ x.lesson = l}

\* a lesson page that writes a fresh progress row at every view
ViewedAfresh(lp, s, l, now) ==
    {x \in lp : ~(x.student = s /\ x.lesson = l)}
        \cup {[student |-> s, lesson |-> l, completed |-> FALSE,
               completed_at |-> None, last_viewed |-> now]}

\* LessonProgress.objects.get_or_create(student=s, lesson=l) in lesson_view: the
\* row when there is one (nothing is saved), else an INSERT with the field
\* defaults, last_viewed being auto_now
Viewed(lp, s, l, now) ==
    IF ProgressOf(lp, s, l) # {}
    THEN lp
    ELSE lp \cup {[student |-> s, lesson |-> l, completed |-> FALSE,
                   completed_at |-> None, last_viewed |-> now]}

\* mark_lesson_complete keeping the completion time of a row already completed
CompletedOnce(lp, s, l, now, saved) ==
    IF \E x \in ProgressOf(lp, s, l) : x.completed
    THEN lp
    ELSE {x \in lp : ~(x.student = s /\ x.lesson = l)}
            \cup {[student |-> s, lesson |-> l, completed |-> TRUE,
                   completed_at |-> now, last_viewed |-> saved]}

\* mark_lesson_complete on the row get_or_create returned: completed = True,
\* completed_at = timezone.now() (now), then save(), which sets last_viewed
\* (auto_now) to the time of the save (saved)
Completed(lp, s, l, now, saved) ==
    {x \in lp : ~(x.student = s /\ x.lesson = l)}
        \cup {[student |-> s, lesson |-> l, completed |-> TRUE,
               completed_at |-> now, last_viewed |-> saved]}

\* the rendered page of a lesson
LessonPage(lid) == "lesson-" \o ToString(lid)

\* lesson_view for the URL course/<c>/lesson/<lid>/: the course is fetched by
\* its slug and the lesson by its id, each on its own
lesson_view(u, c, lid) ==
    /\ \E l \in lessons :
        /\ l.id = lid
        /\ IF EnrollmentsOf(enrollments, u, c) = {} /\ ~l.is_preview
           THEN /\ response' = "redirect"
                /\ UNCHANGED <<lessonProgress, clock>>
           ELSE IF EnrollmentsOf(enrollments, u, c) # {}
           THEN /\ ProgressOf(lessonProgress, u, lid) = {} => clock < MaxTime
                /\ lessonProgress' = Viewed(lessonProgress, u, lid, clock + 1)
                /\ clock' = IF ProgressOf(lessonProgress, u, lid) = {} THEN clock + 1 ELSE clock
                /\ response' = LessonPage(lid)
           ELSE /\ response' = LessonPage(lid)
                /\ UNCHANGED <<lessonProgress, clock>>
    /\ UNCHANGED <<lessons, lessonSeq, enrollments, enrollSeq, certificates, certSeq, dbPay, req>>

\* mark_lesson_complete with the row's timestamps
mark_lesson_complete_at(u, lid) ==
    /\ \E l \in lessons :
        /\ l.id = lid
        /\ IF EnrollmentsOf(enrollments, u, l.course) = {}
           THEN Answer("redirect")
           ELSE Commit(calculate_progress(
                    [DB EXCEPT !.lp = Completed(@, u, lid, clock + 1, clock + 2),
                               !.clk = clock + 2],
                    FirstEnrollment(u, l.course)))
    /\ UNCHANGED <<lessonSeq, enrollSeq, dbPay, req>>

\* The tracking specification: student s1 has bought course c1 (two lessons);
\* course c2 has a preview lesson and a lesson that is none.
InitTrack ==
    /\ lessons = {[id |-> 1, course |-> "c1", is_preview |-> FALSE],
                  [id |-> 2, course |-> "c1", is_preview |-> FALSE],
                  [id |-> 3, course |-> "c2", is_preview |-> TRUE],
                  [id |-> 4, course |-> "c2", is_preview |-> FALSE]}
    /\ lessonSeq = 4
    /\ Purchased({"c1"})

NextTrack ==
    \/ \E u \in Students, c \in Courses, lid \in 1..4 : lesson_view(u, c, lid)
    \/ \E u \in Students, lid \in 1..4 : mark_lesson_complete_at(u, lid)

SpecTrack == InitTrack /\ [][NextTrack]_vars

\* ------------------------------------------------ certificate download
\* the names views.py binds by its import statements
Imported ==
    {"render", "get_object_or_404", "redirect", "login_required", "login",
     "logout", "authenticate", "messages", "JsonResponse", "FileResponse",
     "csrf_exempt", "require_POST", "Q", "Avg", "Count", "Sum", "timezone",
     "settings", "json", "requests", "Certificate", "generate_certificate_pdf"}

\* f"certificate_{certificate.certificate_id}.pdf"
Filename(cid) == "certificate_" \o ToString(cid) \o ".pdf"

\* certificate.pdf_file.save(filename, File(pdf_buffer)): the name File is
\* looked up when the call is evaluated; an unbound name raises NameError
\* before anything is stored.
PdfSave(cert, x, names) ==
    IF "File" \in names
    THEN (cert \ {x}) \cup {[x EXCEPT !.pdf_file = Filename(x.certificate_id)]}
    ELSE cert

download_certificate(u, cid) ==
    /\ LET found == {x \in certificates : x.certificate_id = cid /\ x.student = u} IN
       IF found = {}
       THEN Answer("404")
       ELSE LET x == CHOOSE y \in found : TRUE IN
            IF x.pdf_file = ""
            THEN /\ certificates' = PdfSave(certificates, x, Imported)
                 /\ response' = IF "File" \in Imported
                                THEN Filename(cid) ELSE "error"
                 /\ UNCHANGED <<lessons, lessonProgress, enrollments, certSeq, clock>>
            ELSE Answer(x.pdf_file)
    /\ UNCHANGED <<lessonSeq, enrollSeq, dbPay, req>>

NextCert ==
    \/ NextLearn
    \/ \E u \in Students, cid \in 0..certSeq : download_certificate(u, cid)

SpecCert == InitLearn /\ [][NextCert]_vars

\* ----------------------------------------------- a request that dies
\* calculate_progress saves the enrollment and then calls issue_certificate
\* outside any transaction: an error raised after the save (the database
\* connection drops, the worker is stopped) ends the request with the
\* enrollment stored as completed and no certificate inserted.
step_fail(p) ==
    /\ req[p].pc \in {"issue", "create"}
    /\ Finish(p, "error")
    /\ UNCHANGED <<dbLearn, dbPay>>

NextFault ==
    \/ NextConc
    \/ \E p \in Procs : step_fail(p)

SpecFault == InitConc /\ [][NextFault]_vars

\* ------------------------------------------ add_to_cart, query by query
\* An add_to_cart request in flight: where it is, its user and its course.
NoAdding == [pc |-> "idle", user |-> "", course |-> ""]

Requests == Handlers \cup {"add_to_cart"}

\* add_to_cart: Enrollment.objects.filter(student=, course=).exists()
start_add_to_cart(u, c) ==
    /\ req["add_to_cart"].pc = "idle"
    /\ IF EnrollmentsOf(enrollments, u, c) # {}
       THEN /\ response' = "ok"
            /\ UNCHANGED req
       ELSE /\ req' = [req EXCEPT !["add_to_cart"] = [pc |-> "cart", user |-> u, course |-> c]]
            /\ UNCHANGED response
    /\ UNCHANGED <<dbLearn, dbPay>>

\* add_to_cart: Cart.objects.get_or_create(user=request.user)
add_cart ==
    /\ req["add_to_cart"].pc = "cart"
    /\ carts' = [carts EXCEPT ![req["add_to_cart"].user] = [exists |-> TRUE, items |-> @.items]]
    /\ req' = [req EXCEPT !["add_to_cart"].pc = "item"]
    /\ UNCHANGED <<dbLearn, orders, gateway, emails, handled, response>>

\* add_to_cart: CartItem.objects.get_or_create(cart=cart, course=course); the
\* INSERT fails on the foreign key when the cart row has been deleted since
add_item ==
    /\ req["add_to_cart"].pc = "item"
    /\ LET u == req["add_to_cart"].user IN
       IF carts[u].exists
       THEN /\ carts' = [carts EXCEPT ![u].items = @ \cup {req["add_to_cart"].course}]
            /\ response' = "ok"
       ELSE /\ response' = "error"
            /\ UNCHANGED carts
    /\ req' = [req EXCEPT !["add_to_cart"] = NoAdding]
    /\ UNCHANGED <<dbLearn, orders, gateway, emails, handled>>

InitCart ==
    /\ lessons = {[id |-> 1, course |-> "c1"], [id |-> 2, course |-> "c2"]}
    /\ lessonSeq = 2
    /\ lessonProgress = {}
    /\ enrollments = {}
    /\ enrollSeq = 0
    /\ certificates = {}
    /\ certSeq = 0
    /\ clock = 0
    /\ carts = [u \in Students |-> NoCart]
    /\ orders = <<>>
    /\ gateway = [r \in 1..MaxOrders |-> NoTxn]
    /\ emails = [r \in 1..MaxOrders |-> 0]
    /\ handled = [r \in 1..MaxOrders |-> 0]
    /\ response = "none"
    /\ req = [h \in Requests |-> IF h \in Handlers THEN NoFulfilment ELSE NoAdding]

NextCart ==
    \/ \E u \in Students, c \in Courses : start_add_to_cart(u, c)
    \/ add_cart
    \/ add_item
    \/ \E u \in Students : initiate_payment(u, "ok")
    \/ \E ref \in 1..MaxOrders, ch \in Channels : gateway_charge(ref, ch)
    \/ \E ref \in 1..MaxOrders : start_paystack_webhook(ref)
    \/ \E u \in Students, ref \in 1..MaxOrders : start_payment_verify(u, ref)
    \/ \E h \in Handlers : fulfil_save(h)
    \/ \E h \in Handlers : fulfil_get(h)
    \/ \E h \in Handlers : fulfil_create(h)
    \/ \E h \in Handlers : fulfil_cart(h)
    \/ \E h \in Handlers : fulfil_mail(h)

SpecCart == InitCart /\ [][NextCart]_vars

\* -------------------------------------- initiate_payment, query by query
\* An initiate_payment request in flight: where it is, its user and the order
\* it has inserted.
NoInitiating == [pc |-> "idle", user |-> "", order |-> 0]

\* remove_from_cart: get_object_or_404(CartItem, id=, cart__user=), delete()
remove_from_cart(u, c) ==
    /\ IF c \in carts[u].items
       THEN /\ carts' = [carts EXCEPT ![u].items = @ \ {c}]
            /\ response' = "ok"
       ELSE /\ response' = "404"
            /\ UNCHANGED carts
    /\ UNCHANGED <<orders, gateway, emails, handled, dbLearn, req>>

\* initiate_payment: get_object_or_404(Cart, user=) and cart.items.exists()
start_initiate_payment(u) ==
    /\ req["initiate_payment"].pc = "idle"
    /\ IF ~carts[u].exists
       THEN response' = "404" /\ UNCHANGED req
       ELSE IF carts[u].items = {}
       THEN response' = "ok" /\ UNCHANGED req
       ELSE /\ req' = [req EXCEPT !["initiate_payment"] = [pc |-> "order", user |-> u, order |-> 0]]
            /\ UNCHANGED response
    /\ UNCHANGED <<dbLearn, dbPay>>

\* initiate_payment: order.total_amount = cart.get_total(), order.save()
initiate_order ==
    /\ req["initiate_payment"].pc = "order"
    /\ Len(orders) < MaxOrders
    /\ orders' = Append(orders,
                   [user |-> req["initiate_payment"].user,
                    total_amount |-> SumPrices(carts[req["initiate_payment"].user].items),
                    items |-> {},
                    status |-> "pending",
                    payment_reference |-> "",
                    payment_method |-> "",
                    completed_at |-> None])
    /\ req' = [req EXCEPT !["initiate_payment"].pc = "items",
                          !["initiate_payment"].order = Len(orders) + 1]
    /\ UNCHANGED <<dbLearn, carts, gateway, emails, handled, response>>

\* initiate_payment: for cart_item in cart.items.all(): OrderItem.objects.create(...)
initiate_items ==
    /\ req["initiate_payment"].pc = "items"
    /\ orders' = [orders EXCEPT ![req["initiate_payment"].order].items =
                     {[course |-> c, price |-> Price(c)] :
                          c \in carts[req["initiate_payment"].user].items}]
    /\ req' = [req EXCEPT !["initiate_payment"].pc = "gateway"]
    /\ UNCHANGED <<dbLearn, carts, gateway, emails, handled, response>>

\* initiate_payment: the gateway's initialize call and the answer
initiate_gateway(init) ==
    /\ req["initiate_payment"].pc = "gateway"
    /\ LET o == req["initiate_payment"].order IN
       /\ orders' = IF init = "ok" THEN orders
                    ELSE [orders EXCEPT ![o].status = "failed"]
       /\ gateway' = IF init = "ok"
                     THEN [gateway EXCEPT ![o] = [status |-> "initialized", channel |-> ""]]
                     ELSE gateway
    /\ response' = "ok"
    /\ req' = [req EXCEPT !["initiate_payment"] = NoInitiating]
    /\ UNCHANGED <<dbLearn, carts, emails, handled>>

InitOrder ==
    /\ lessons = {[id |-> 1, course |-> "c1"], [id |-> 2, course |-> "c2"]}
    /\ lessonSeq = 2
    /\ lessonProgress = {}
    /\ enrollments = {}
    /\ enrollSeq = 0
    /\ certificates = {}
    /\ certSeq = 0
    /\ clock = 0
    /\ carts = [u \in Students |-> NoCart]
    /\ orders = <<>>
    /\ gateway = [r \in 1..MaxOrders |-> NoTxn]
    /\ emails = [r \in 1..MaxOrders |-> 0]
    /\ handled = [r \in 1..MaxOrders |-> 0]
    /\ response = "none"
    /\ req = [h \in {"initiate_payment"} |-> NoInitiating]

NextOrder ==
    \/ \E u \in Students : cart_view(u)
    \/ \E u \in Students, c \in Courses : add_to_cart(u, c)
    \/ \E u \in Students, c \in Courses : remove_from_cart(u, c)
    \/ \E u \in Students : start_initiate_payment(u)
    \/ initiate_order
    \/ initiate_items
    \/ \E init \in {"ok", "declined", "exception"} : initiate_gateway(init)

SpecOrder == InitOrder /\ [][NextOrder]_vars

\* ------------------------------------------------------------ the claims
\* C1: under any interleaving of calculate_progress and issue_certificate calls,
\* also of requests that both passed the exists() pre-check, there is at most one
\* Certificate row for each (student, course) pair.
C1_OneCertificatePerPair ==
    \A s \in Students, c \in Courses :
        Cardinality(CertificatesOf(certificates, s, c)) <= 1

\* a request has passed the pre-check and is about to insert, and meanwhile
\* another request has inserted the pair's certificate
C1_Witness ==
    \E p \in Procs :
        /\ req[p].pc = "create"
        /\ CertificatesOf(certificates, req[p].self.student, req[p].self.course) # {}

\* C2: once an order is completed, a further success confirmation leaves its
\* payment_reference, payment_method and completed_at unchanged and dispatches
\* no further enrollment-confirmation mail.
C2_CompletedOrderNotRefulfilled ==
    [][\A o \in OrderIds :
        orders[o].status = "completed" =>
            /\ orders'[o].payment_reference = orders[o].payment_reference
            /\ orders'[o].payment_method = orders[o].payment_method
            /\ orders'[o].completed_at = orders[o].completed_at
            /\ emails'[o] = emails[o]]_vars

\* C3: when a success confirmation is handled for an order for which one was
\* handled before, then afterwards there is exactly one Enrollment row per
\* (order.user, ordered course), no error was raised and the order is completed.
C3_SecondFulfilmentIdempotent ==
    [][\A o \in OrderIds :
        (handled[o] >= 1 /\ handled'[o] = handled[o] + 1) =>
            /\ orders'[o].status = "completed"
            /\ \A it \in orders[o].items :
                  Cardinality(EnrollmentsOf(enrollments', orders[o].user, it.course)) = 1
            /\ response' = "ok"]_vars

\* an order has been fulfilled twice
C3_Witness ==
    \E o \in OrderIds :
        /\ handled[o] >= 2
        /\ orders[o].status = "completed"
        /\ \A it \in orders[o].items :
              EnrollmentsOf(enrollments, orders[o].user, it.course) # {}

\* a step of initiate_payment, paystack_webhook or payment_verify
PaymentHandlerStep ==
    \/ \E u \in Students, init \in {"ok", "declined", "exception"} : initiate_payment(u, init)
    \/ \E ev \in {"charge.success", "charge.failed"}, ref \in 1..MaxOrders, ch \in Channels :
          \E id \in {TxnId(ref), "forged"} : paystack_webhook(ev, ref, id, ch)
    \/ \E u \in Students, ref \in 0..MaxOrders, net \in {"answer", "exception"} :
          payment_verify(u, ref, net)

\* C4: every change initiate_payment, paystack_webhook and payment_verify make to
\* an order's status is one of the edges pending -> processing, processing ->
\* completed, processing -> failed; so a completed order is never changed to
\* failed and a failed order is never changed to completed.
C4_CompletedAndFailedAreFinal ==
    [][PaymentHandlerStep =>
        \A o \in OrderIds :
            orders'[o].status # orders[o].status =>
                <<orders[o].status, orders'[o].status>> \in
                    {<<"pending", "processing">>, <<"processing", "completed">>,
                     <<"processing", "failed">>}]_vars

\* C5: no operation moves an order that is completed or failed back to pending.
C5_NeverBackToPending ==
    [][\A o \in OrderIds :
        orders[o].status \in {"completed", "failed"} => orders'[o].status # "pending"]_vars

\* C6: an order becomes completed only once, and only by a confirmation that was
\* verified with the gateway for the order's own reference: the step is
\* payment_verify for that reference by the order's user, the gateway holding a
\* successful charge for it.
C6_CompletedOnlyByVerifiedConfirmation ==
    [][\A o \in OrderIds :
        (orders[o].status # "completed" /\ orders'[o].status = "completed") =>
            /\ gateway[o].status = "success"
            /\ payment_verify(orders[o].user, o, "answer")
            /\ handled[o] = 0]_vars

\* C7: a calculate_progress call made when the stored completed flag is already
\* true does not leave the stored flag false.
C7_CompletedNeverReverted ==
    [][\A p \in Procs :
        (req[p].pc = "save" /\ req'[p].pc # "save" /\ req[p].late) =>
            \A e \in enrollments' : e.id = req[p].self.id => e.completed]_vars

\* C8: once the stored completed flag is true, no step changes the stored
\* completed_at.
C8_CompletedAtNeverChanges ==
    [][\A e \in enrollments :
        e.completed =>
            \A f \in enrollments' : f.id = e.id => f.completed_at = e.completed_at]_vars

\* a calculate_progress call on enrollment e (whole handler)
CalculateStep(e) ==
    \/ dashboard(e.student)
    \/ course_content(e.student, e.course)
    \/ \E l \in lessons : l.course = e.course /\ mark_lesson_complete(e.student, l.id)

\* C9: after calculate_progress on an enrollment whose course has no lessons the
\* stored progress_percentage is 0 and the stored completed flag is false.
C9_NoLessonsStoresZero ==
    [][\A e \in enrollments :
        (CalculateStep(e) /\ total_lessons(DB, e.course) = 0) =>
            \A f \in enrollments' :
                f.id = e.id => f.progress_percentage = 0 /\ ~f.completed]_vars

\* C10: a calculate_progress call on a not yet completed enrollment that computes
\* 100 leaves it completed, with completed_at set, progress_percentage 100 and
\* exactly one Certificate for the pair; one that computes less leaves it not
\* completed, with the computed percentage stored.
C10_CompletionAtHundred ==
    [][\A e \in enrollments :
        (CalculateStep(e) /\ ~e.completed /\ total_lessons(DB', e.course) > 0) =>
            LET pct == Percentage(completed_lessons(DB', e.student, e.course),
                                  total_lessons(DB', e.course))
            IN  \A f \in enrollments' :
                    f.id = e.id =>
                        IF pct = 100
                        THEN /\ f.completed
                             /\ f.completed_at # None
                             /\ f.progress_percentage = 100
                             /\ Cardinality(CertificatesOf(certificates', e.student, e.course)) = 1
                        ELSE /\ ~f.completed
                             /\ f.progress_percentage = pct]_vars

\* one enrollment has been completed by a call and holds its certificate, another
\* has been recalculated with 1 of its course's 4 lessons completed
C10_Witness ==
    \E e, f \in enrollments :
        /\ e.completed /\ e.completed_at # None /\ e.progress_percentage = 100
        /\ Cardinality(CertificatesOf(certificates, e.student, e.course)) = 1
        /\ total_lessons(DB, f.course) = 4
        /\ completed_lessons(DB, f.student, f.course) = 1
        /\ ~f.completed /\ f.progress_percentage = 25

\* C11: every Certificate row has an Enrollment row for the same (student,
\* course) pair whose stored completed flag is true.
C11_CertificateImpliesCompleted ==
    \A x \in certificates :
        \E e \in EnrollmentsOf(enrollments, x.student, x.course) : e.completed

\* C12: an issue_certificate call on a completed enrollment whose pair already
\* has a Certificate creates nothing (it does not go on to the INSERT, raises
\* nothing) and leaves the Certificate rows as they are.
C12_SecondIssueIsNoOp ==
    [][\A p \in Procs :
        (/\ step_issue(p)
         /\ req[p].self.completed
         /\ CertificatesOf(certificates, req[p].self.student, req[p].self.course) # {}) =>
            /\ certificates' = certificates
            /\ certSeq' = certSeq
            /\ req'[p].pc # "create"
            /\ response' # "error"]_vars

\* a request that completed its enrollment is about to call issue_certificate
\* while the pair's certificate has been issued by another request
C12_Witness ==
    \E p \in Procs :
        /\ req[p].pc = "issue"
        /\ req[p].self.completed
        /\ Cardinality(CertificatesOf(certificates, req[p].self.student, req[p].self.course)) = 1

\* C13: after a calculate_progress call on an enrollment whose course has
\* total > 0 lessons, the stored progress_percentage is floor(completed * 100 /
\* total), completed being the student's completed lessons of the course, and
\* lies in 0..100.
C13_PercentageIsFloor ==
    [][\A e \in enrollments :
        (CalculateStep(e) /\ total_lessons(DB', e.course) > 0) =>
            \A f \in enrollments' :
                f.id = e.id =>
                    /\ f.progress_percentage =
                          (completed_lessons(DB', e.student, e.course) * 100)
                              \div total_lessons(DB', e.course)
                    /\ f.progress_percentage \in 0..100]_vars

\* C14: a second calculate_progress call on the same enrollment, made right
\* after a first one with no LessonProgress or lesson change in between, leaves
\* the stored Enrollment rows and the Certificate rows as the first call left them.
C14_RecalculationIdempotent ==
    [][\A e \in enrollments :
        CalculateStep(e) =>
            \A f \in enrollments' :
                f.id = e.id =>
                    LET again == calculate_progress(DB', f)
                    IN  /\ again.enr = enrollments'
                        /\ again.cert = certificates'
                        /\ ~again.raised]_vars

\* a first call has completed an enrollment and issued its certificate
C14_Witness ==
    \E e \in enrollments, x \in certificates :
        /\ e.completed /\ e.progress_percentage = 100
        /\ x.student = e.student /\ x.course = e.course
        /\ x.issued_at = e.completed_at + 1
        /\ total_lessons(DB, e.course) > 0
        /\ completed_lessons(DB, e.student, e.course) = total_lessons(DB, e.course)

\* C15: when a success confirmation is handled for an existing pending order,
\* then after the handler the order is completed with payment_reference,
\* payment_method and completed_at stored, and there is an Enrollment for
\* (order.user, item.course) for every item of the order.
C15_PendingOrderFulfilled ==
    [][\A o \in OrderIds :
        (orders[o].status = "pending" /\ handled'[o] = handled[o] + 1) =>
            /\ orders'[o].status = "completed"
            /\ orders'[o].payment_reference # ""
            /\ orders'[o].payment_method \in Channels
            /\ orders'[o].completed_at = clock'
            /\ orders'[o].completed_at # None
            /\ \A it \in orders[o].items :
                  EnrollmentsOf(enrollments', orders[o].user, it.course) # {}
            /\ response' = "ok"]_vars

\* a pending order of two items (prices 100 and 200) has been fulfilled once
C15_Witness ==
    \E o \in OrderIds :
        /\ handled[o] = 1
        /\ orders[o].status = "completed"
        /\ orders[o].total_amount = 300
        /\ Cardinality(orders[o].items) = 2
        /\ \A it \in orders[o].items :
              Cardinality(EnrollmentsOf(enrollments, orders[o].user, it.course)) = 1

\* C16: under any interleaving of the reads and writes of paystack_webhook and
\* payment_verify handling a success confirmation for the same order, no handler
\* fails, there is never more than one Enrollment per (user, course), and once
\* the handlers have returned the order is completed with exactly one Enrollment
\* per (order.user, ordered course).
C16_ConcurrentFulfilmentSafe ==
    /\ response # "error"
    /\ \A s \in Students, c \in Courses :
          Cardinality(EnrollmentsOf(enrollments, s, c)) <= 1
    /\ \A o \in OrderIds :
          (handled[o] >= 1 /\ \A h \in Handlers : req[h].order # o) =>
              /\ orders[o].status = "completed"
              /\ \A it \in orders[o].items :
                    Cardinality(EnrollmentsOf(enrollments, orders[o].user, it.course)) = 1

\* both handlers are fulfilling the same order; one is about to INSERT the
\* enrollment its SELECT did not find, and the other has inserted it meanwhile
C16_Witness ==
    \E h, g \in Handlers :
        /\ h # g
        /\ req[h].pc = "create"
        /\ req[g].order = req[h].order
        /\ EnrollmentsOf(enrollments, req[h].self.user, NextItem(req[h].left).course) # {}

\* C17: when the gateway is unreachable or answers with a failure during
\* initiate_payment or payment_verify, the order concerned is left with status
\* failed and no Enrollment is created: in no reachable state can such a call
\* end otherwise.
C17_GatewayFailureMarksFailed ==
    /\ \A u \in Students, init \in {"declined", "exception"} :
          ~ENABLED (/\ initiate_payment(u, init)
                    /\ Len(orders') = Len(orders) + 1
                    /\ ~(/\ orders'[Len(orders')].status = "failed"
                          /\ enrollments' = enrollments))
    /\ \A u \in Students, ref \in OrderIds, net \in {"answer", "exception"} :
          (orders[ref].user = u /\ (net = "exception" \/ gateway[ref].status # "success")) =>
              ~ENABLED (/\ payment_verify(u, ref, net)
                        /\ ~(/\ orders'[ref].status = "failed"
                              /\ enrollments' = enrollments))

\* C18: when the enrollment-confirmation mail of a fulfilment is not dispatched
\* (sending fails or send_enrollment_email hits an error inside), the handler
\* still returns its response and the fulfilment stands: the order is completed,
\* its items' enrollments exist and the user's cart is gone.
C18_MailFailureKeepsFulfilment ==
    [][\A o \in OrderIds :
        (handled'[o] = handled[o] + 1 /\ emails'[o] = emails[o]) =>
            /\ response' = "ok"
            /\ orders'[o].status = "completed"
            /\ orders'[o].completed_at = clock'
            /\ \A it \in orders[o].items :
                  EnrollmentsOf(enrollments', orders[o].user, it.course) # {}
            /\ carts'[orders[o].user] = NoCart]_vars

\* an order has been fulfilled and no mail was dispatched for it
C18_Witness ==
    \E o \in OrderIds :
        /\ handled[o] >= 1
        /\ emails[o] = 0
        /\ orders[o].status = "completed"
        /\ response = "ok"
        /\ carts[orders[o].user] = NoCart
        /\ \A it \in orders[o].items :
              EnrollmentsOf(enrollments, orders[o].user, it.course) # {}

\* C19: a fulfilment deletes the ordering user's Cart with all its CartItems;
\* a later cart_view creates an empty cart and a later add_to_cart a cart that
\* holds the added course only.
C19_CartClearedByFulfilment ==
    [][/\ \A o \in OrderIds :
            handled'[o] = handled[o] + 1 => carts'[orders[o].user] = NoCart
       /\ \A u \in Students :
            (cart_view(u) /\ carts[u] = NoCart) =>
                carts'[u] = [exists |-> TRUE, items |-> {}]
       /\ \A u \in Students, c \in Courses :
            (/\ add_to_cart(u, c)
             /\ carts[u] = NoCart
             /\ EnrollmentsOf(enrollments, u, c) = {}) =>
                carts'[u] = [exists |-> TRUE, items |-> {c}]]_vars

\* an order has been fulfilled and the user has opened the cart page since
C19_Witness ==
    \E o \in OrderIds :
        /\ handled[o] >= 1
        /\ orders[o].status = "completed"
        /\ carts[orders[o].user] = [exists |-> TRUE, items |-> {}]

C21_ViewIdempotent ==
    /\ [](\A s \in Students, l \in lessons :
            Cardinality(ProgressOf(lessonProgress, s, l.id)) <= 1)
    /\ [][\A u \in Students, c \in Courses, l \in lessons :
            lesson_view(u, c, l.id) =>
                /\ EnrollmentsOf(enrollments, u, c) # {} =>
                      Cardinality(ProgressOf(lessonProgress', u, l.id)) = 1
                /\ \A x \in lessonProgress :
                      \E y \in ProgressOf(lessonProgress', x.student, x.lesson) :
                          y.completed = x.completed /\ y.completed_at = x.completed_at]_vars

\* the student has completed lesson 1 and has opened its page again since
C21_Witness ==
    /\ response = LessonPage(1)
    /\ \E x \in ProgressOf(lessonProgress, "s1", 1) : x.completed /\ x.completed_at # None

\* C22: mark_lesson_complete by a student enrolled in the lesson's course leaves
\* exactly one LessonProgress row for (student, lesson), completed, with
\* completed_at the time of the call, whether or not the row was there before,
\* and leaves every other LessonProgress row as it was.
C22_MarkCompletesOneRow ==
    [][\A u \in Students, l \in lessons :
        (mark_lesson_complete_at(u, l.id) /\ EnrollmentsOf(enrollments, u, l.course) # {}) =>
            /\ Cardinality(ProgressOf(lessonProgress', u, l.id)) = 1
            /\ \A y \in ProgressOf(lessonProgress', u, l.id) :
                  /\ y.completed
                  /\ y.completed_at > clock
                  /\ y.completed_at <= clock'
            /\ lessonProgress' \ ProgressOf(lessonProgress', u, l.id)
                  = lessonProgress \ ProgressOf(lessonProgress, u, l.id)]_vars

\* a lesson was marked complete after another lesson was viewed, and the row
\* of the viewed lesson is as the view left it
C22_Witness ==
    \E x, y \in lessonProgress :
        /\ x.lesson # y.lesson
        /\ x.completed /\ x.completed_at > y.last_viewed
        /\ ~y.completed /\ y.completed_at = None
        /\ response = "ok"


\* C23: every lesson_view that shows the lesson, to an enrolled student or to a
\* student previewing a preview lesson, leaves a LessonProgress row for
\* (student, lesson) whose last_viewed is the time of that request, and so does
\* every mark_lesson_complete.  A view that writes nothing changes no
\* variable but the response, so the claim is stated on what a handler can do.
C23_ProgressTracksViews ==
    /\ \A u \in Students, c \in Courses, l \in lessons :
          ~ENABLED (/\ lesson_view(u, c, l.id)
                    /\ response' = LessonPage(l.id)
                    /\ ~\E y \in ProgressOf(lessonProgress', u, l.id) : y.last_viewed > clock)
    /\ \A u \in Students, l \in lessons :
          ~ENABLED (/\ mark_lesson_complete_at(u, l.id)
                    /\ response' = "ok"
                    /\ ~\E y \in ProgressOf(lessonProgress', u, l.id) : y.last_viewed > clock)


\* C26: every LessonProgress row belongs to a student who is enrolled in the
\* course that owns the row's lesson, because lesson_view creates a row, and
\* shows a non-preview lesson, only to such a student.
C26_ProgressOnlyForEnrolled ==
    \A x \in lessonProgress : \E l \in lessons :
        /\ l.id = x.lesson
        /\ EnrollmentsOf(enrollments, x.student, l.course) # {}


\* C24: the first download of a certificate whose pdf_file is empty returns the
\* generated file and leaves its reference on the Certificate row; a download of
\* a certificate whose pdf_file is set returns that file and changes no row.
C24_CertificateCachedOnFirstDownload ==
    \A x \in certificates :
        ~ENABLED (/\ download_certificate(x.student, x.certificate_id)
                  /\ IF x.pdf_file = ""
                     THEN ~(/\ response' = Filename(x.certificate_id)
                            /\ [x EXCEPT !.pdf_file = Filename(x.certificate_id)] \in certificates')
                     ELSE ~(/\ response' = x.pdf_file
                            /\ certificates' = certificates))


\* C25: whenever no request is in progress, every completed enrollment has a
\* certificate for its (student, course), or a calculate_progress call made
\* now (by course_content) creates it, also after a request died between the
\* save of the enrollment and the insert of the certificate.
C25_CompletedHasCertificate ==
    \A e \in enrollments :
        (/\ e.completed
         /\ \A p \in Procs : req[p].pc = "idle"
         /\ clock < MaxTime) =>
            \/ CertificatesOf(certificates, e.student, e.course) # {}
            \/ ENABLED (/\ course_content(e.student, e.course)
                        /\ CertificatesOf(certificates', e.student, e.course) # {})


\* C27: a user never has two completed orders, both charged at the gateway,
\* that contain the same course.
C27_NoCoursePaidTwice ==
    \A i, j \in OrderIds :
        (/\ i # j
         /\ orders[i].user = orders[j].user
         /\ orders[i].status = "completed" /\ gateway[i].status = "success"
         /\ orders[j].status = "completed" /\ gateway[j].status = "success") =>
            {it.course : it \in orders[i].items} \cap {it.course : it \in orders[j].items} = {}

\* C28: every completed order has an Enrollment for (order.user, item.course)
\* for each of its items, whichever operation set the status.
C28_CompletedOrderHasEnrollments ==
    \A o \in OrderIds :
        orders[o].status = "completed" =>
            \A it \in orders[o].items :
                EnrollmentsOf(enrollments, orders[o].user, it.course) # {}


\* C29: whenever no request is in progress, no user's cart contains a course
\* in which that user is enrolled, however the queries of add_to_cart
\* interleave with those of a fulfilment.
C29_CartHoldsNoEnrolledCourse ==
    (\A h \in Requests : req[h].pc = "idle") =>
        \A u \in Students : \A c \in carts[u].items :
            EnrollmentsOf(enrollments, u, c) = {}


\* C30: once initiate_payment has returned, every order it created has at
\* least one item and a total_amount equal to the sum of its items' prices,
\* whatever add_to_cart and remove_from_cart requests of the same user ran
\* between its queries.
C30_TotalIsSumOfItems ==
    req["initiate_payment"].pc = "idle" =>
        \A o \in OrderIds :
            /\ orders[o].items # {}
            /\ orders[o].total_amount = SumPrices({it.course : it \in orders[o].items})
            /\ \A it \in orders[o].items : it.price = Price(it.course)

====
